---- MODULE Spec2Model ----
(***************************************************************************)
(* Model of the PCSX2 execution state controller (CoreEmuThread) as found  *)
(* in pcsx2/ps2/CoreEmuThread.cpp: one execution thread that runs the CPU   *)
(* loop and polls the execution mode at safe points, and control threads   *)
(* that call Resume(), Suspend() and ApplySettings().                      *)
(*                                                                         *)
(* Every access to shared state that is not protected by m_lock_ExecMode   *)
(* is a step of its own, so that the interleavings of the real threads are *)
(* interleavings of the model.                                             *)
(*                                                                         *)
(* The recovery system of RecoverySystem.cpp (namespace StateRecovery and  *)
(* its saving-state classes) is modelled with it: Spec is the controller   *)
(* on its own, RecSpec the controller together with the StateRecovery      *)
(* calls of one control thread and the bytes of the recovery buffers.      *)
(***************************************************************************)
EXTENDS Integers, FiniteSets, Sequences, TLC

\* Number of control (non-execution) threads.
NumCtl == 2
\* Cap on the count of either semaphore.
MaxSem == 2

CtlThreads == 1..NumCtl

\* Holders of m_lock_ExecMode: nobody, the execution thread, a control thread.
NoThread == <<>>
EmuThread == <<"emu">>
Ctl(t) == <<"ctl", t>>

\* Values of the history variable mon: nothing is followed; ApplySettings has
\* changed the profiler group only, with no Resume() in progress; control
\* thread t has started the next Resume() and no other control thread has
\* taken a step since.
MonOff == <<"off">>
MonArmed == <<"armed">>
MonResume(t) == <<"resume", t>>

\* A null pointer; a buffer that exists is Buf(bytes).
Null == <<>>
Buf(bytes) == <<bytes>>
Bytes(buf) == buf[1]

\* Value of the history variable atCall when no StateRecovery call is remembered.
NoCall == [mode |-> "Idle", session |-> FALSE, full |-> FALSE, gs |-> FALSE]

ExecModes == {"Idle", "Running", "Suspending", "Suspended"}

\* Pcsx2Config, reduced to the four option groups ApplySettings compares.
\* Each group is either at its default (FALSE) or altered (TRUE).
Pcsx2Config == [Cpu : BOOLEAN, Gamefixes : BOOLEAN, Speedhacks : BOOLEAN, Profiler : BOOLEAN]

DefaultConfig == [Cpu |-> FALSE, Gamefixes |-> FALSE, Speedhacks |-> FALSE, Profiler |-> FALSE]

\* The configurations handed to ApplySettings: the default one, one that
\* alters the profiler group only, and one that alters recompiler groups.
Configs ==
    { DefaultConfig,
      [DefaultConfig EXCEPT !.Profiler = TRUE],
      [DefaultConfig EXCEPT !.Cpu = TRUE, !.Speedhacks = TRUE] }

VARIABLES
    m_ExecMode,          \* CoreEmuThread::m_ExecMode
    m_ResumeEvent,       \* count of the semaphore m_ResumeEvent
    m_SuspendEvent,      \* count of the semaphore m_SuspendEvent
    m_resetRecompilers,  \* CoreEmuThread::m_resetRecompilers
    m_resetProfilers,    \* CoreEmuThread::m_resetProfilers
    m_lock_ExecMode,     \* holder of the mutex m_lock_ExecMode, or NoThread
    EmuConfig,           \* the active configuration
    cacheFilled,         \* the translated-code cache holds code
    epc,                 \* position of the execution thread
    pc,                  \* position of each control thread
    isBlocking,          \* argument of the Suspend() call a control thread is in
    lastWrite,           \* history: code site and lock status of the last write to m_ExecMode
    ack,                 \* history: per control thread, fate of the suspend request it made
    clears,              \* history: per control thread, cache clears done by its current Resume()
    mon,                 \* history: follows "ApplySettings(profiler only), then the next Resume()"
    g_EmuThread,         \* g_EmuThread != NULL: the CoreEmuThread object exists
    g_RecoveryState,     \* the full recovery buffer, or Null
    g_gsRecoveryState,   \* the GS-only recovery buffer, or Null
    savedFile,           \* history: the file the last StateRecovery call wrote, or Null
    op,                  \* position of each control thread inside a StateRecovery call
    thawed,              \* history: the buffer the last Recover() loaded from
    fault,               \* history: undefined behaviour met so far
    result,              \* history: how the last StateRecovery call ended
    atCall               \* history: the state in which the last StateRecovery call was made

\* The state of the recovery system apart from the callers' positions.
storeVars == <<g_EmuThread, g_RecoveryState, g_gsRecoveryState, thawed, fault>>

\* What a StateRecovery call records about itself.
callVars == <<op, result, atCall, savedFile>>

recVars == <<storeVars, callVars>>

vars == <<m_ExecMode, m_ResumeEvent, m_SuspendEvent, m_resetRecompilers, m_resetProfilers,
          m_lock_ExecMode, EmuConfig, cacheFilled, epc, pc, isBlocking, lastWrite, ack, clears, mon,
          recVars>>

\* Semaphore::Post
SemPost(count) == count + 1

\* Semaphore::WaitGui can return only when the count is positive
SemCanWait(count) == count > 0

\* Semaphore::WaitGui, the count after it returned
SemWait(count) == count - 1

\* CoreEmuThread::CoreEmuThread
Init ==
    /\ m_ExecMode = "Idle"
    /\ m_ResumeEvent = 0
    /\ m_SuspendEvent = 0
    /\ m_resetRecompilers = FALSE
    /\ m_resetProfilers = FALSE
    /\ m_lock_ExecMode = NoThread
    /\ EmuConfig = DefaultConfig
    /\ cacheFilled = FALSE
    /\ epc = "start"
    /\ pc = [t \in CtlThreads |-> "idle"]
    /\ isBlocking = [t \in CtlThreads |-> TRUE]
    /\ lastWrite = [site |-> "ctor", locked |-> TRUE]
    /\ ack = [t \in CtlThreads |-> "na"]
    /\ clears = [t \in CtlThreads |-> 0]
    /\ mon = MonOff
    /\ g_EmuThread = TRUE
    /\ g_RecoveryState = Null
    /\ g_gsRecoveryState = Null
    /\ savedFile = Null
    /\ op = [t \in CtlThreads |-> "none"]
    /\ thawed = "none"
    /\ fault = "none"
    /\ result = "none"
    /\ atCall = NoCall

(***************************************************************************)
(* History bookkeeping shared by the control-thread actions.               *)
(***************************************************************************)

\* A step of control thread t: a Resume() being followed by mon is no longer
\* followed once another control thread acts while it is in progress.
MonStep(t) == IF Len(mon) = 2 /\ mon[2] # t THEN MonOff ELSE mon

\* The call of control thread t returns.
MonReturn(t) == IF mon = MonResume(t) THEN MonOff ELSE MonStep(t)

ResetPending == m_resetRecompilers \/ m_resetProfilers

\* Control thread t is in a Resume() call.
InResume(t) == pc[t] \in {"R_check", "R_wait", "R_assert", "R_reset", "R_run", "R_post"}

(***************************************************************************)
(* CoreEmuThread::Resume, called by control thread t.                      *)
(***************************************************************************)

\* Resume: the IsSelf/IsRunning test passes for a control thread of a live
\* execution thread; ScopedLock locker( m_lock_ExecMode ).
Resume_Call(t) ==
    /\ pc[t] = "idle"
    /\ m_lock_ExecMode = NoThread
    /\ m_lock_ExecMode' = Ctl(t)
    /\ pc' = [pc EXCEPT ![t] = "R_check"]
    /\ clears' = [clears EXCEPT ![t] = 0]
    /\ mon' = IF mon = MonArmed THEN MonResume(t) ELSE MonStep(t)
    /\ UNCHANGED <<m_ExecMode, m_ResumeEvent, m_SuspendEvent, m_resetRecompilers,
                   m_resetProfilers, EmuConfig, cacheFilled, epc, isBlocking, lastWrite, ack>>
    /\ UNCHANGED storeVars

\* Resume() called on its own, not from inside a StateRecovery call.
Resume_Enter(t) == Resume_Call(t) /\ UNCHANGED callVars

\* A variant of ResumeBranch without the test for ExecMode_Running.
ResumeBranch_NoRunningTest ==
    IF m_ExecMode = "Suspending"
    THEN IF ResetPending THEN "wait" ELSE "rescind"
    ELSE "proceed"

\* A variant of ResumeBranch without the test for pending resets.
ResumeBranch_NoResetTest ==
    IF m_ExecMode = "Running" THEN "return"
    ELSE IF m_ExecMode = "Suspending" THEN "rescind"
    ELSE "proceed"

\* Resume: the path chosen by the tests made under the lock.
ResumeBranch ==
    IF m_ExecMode = "Running" THEN "return"
    ELSE IF m_ExecMode = "Suspending"
    THEN IF ResetPending THEN "wait" ELSE "rescind"
    ELSE "proceed"

\* Resume: the tests made under the lock; the lock is released on every path.
Resume_Check(t) ==
    /\ pc[t] = "R_check"
    /\ m_lock_ExecMode = Ctl(t)
    /\ m_lock_ExecMode' = NoThread
    /\ LET branch == ResumeBranch IN
       CASE branch = "return" ->
                /\ pc' = [pc EXCEPT ![t] = "idle"]
                /\ mon' = MonReturn(t)
                /\ UNCHANGED <<m_ExecMode, lastWrite>>
         [] branch = "wait" ->
                /\ pc' = [pc EXCEPT ![t] = "R_wait"]
                /\ mon' = MonStep(t)
                /\ UNCHANGED <<m_ExecMode, lastWrite>>
         [] branch = "rescind" ->
                /\ m_ExecMode' = "Running"
                /\ lastWrite' = [site |-> "Resume212", locked |-> m_lock_ExecMode = Ctl(t)]
                /\ pc' = [pc EXCEPT ![t] = "idle"]
                /\ mon' = MonReturn(t)
         [] branch = "proceed" ->
                /\ pc' = [pc EXCEPT ![t] = "R_assert"]
                /\ mon' = MonStep(t)
                /\ UNCHANGED <<m_ExecMode, lastWrite>>
    /\ UNCHANGED <<m_ResumeEvent, m_SuspendEvent, m_resetRecompilers, m_resetProfilers,
                   EmuConfig, cacheFilled, epc, isBlocking, ack, clears>>
    /\ UNCHANGED recVars

\* Resume: m_SuspendEvent.WaitGui() of the reset-pending branch.
Resume_Wait(t) ==
    /\ pc[t] = "R_wait"
    /\ SemCanWait(m_SuspendEvent)
    /\ m_SuspendEvent' = SemWait(m_SuspendEvent)
    /\ pc' = [pc EXCEPT ![t] = "R_assert"]
    /\ mon' = MonStep(t)
    /\ UNCHANGED <<m_ExecMode, m_ResumeEvent, m_resetRecompilers, m_resetProfilers,
                   m_lock_ExecMode, EmuConfig, cacheFilled, epc, isBlocking, lastWrite, ack, clears>>
    /\ UNCHANGED recVars

\* The condition of the DevAssert in Resume.
ResumeAssertion == m_ExecMode = "Suspended" \/ m_ExecMode = "Idle"

\* Resume: the DevAssert.  A failed assertion throws out of Resume in a
\* development build and is compiled out of a release build.
Resume_Assert(t) ==
    /\ pc[t] = "R_assert"
    /\ \/ /\ pc' = [pc EXCEPT ![t] = "R_reset"]
          /\ mon' = MonStep(t)
       \/ /\ ~ResumeAssertion
          /\ pc' = [pc EXCEPT ![t] = "idle"]
          /\ mon' = MonReturn(t)
    /\ UNCHANGED <<m_ExecMode, m_ResumeEvent, m_SuspendEvent, m_resetRecompilers,
                   m_resetProfilers, m_lock_ExecMode, EmuConfig, cacheFilled, epc,
                   isBlocking, lastWrite, ack, clears>>
    /\ UNCHANGED recVars

\* A variant of Resume_Reset that forgets to clear m_resetProfilers.
Resume_Reset_KeepsProfilerFlag(t) ==
    /\ pc[t] = "R_reset"
    /\ IF ResetPending
       THEN /\ cacheFilled' = FALSE
            /\ m_resetRecompilers' = FALSE
            /\ clears' = [clears EXCEPT ![t] = clears[t] + 1]
            /\ UNCHANGED m_resetProfilers
       ELSE UNCHANGED <<cacheFilled, m_resetRecompilers, m_resetProfilers, clears>>
    /\ pc' = [pc EXCEPT ![t] = "R_run"]
    /\ mon' = MonStep(t)
    /\ UNCHANGED <<m_ExecMode, m_ResumeEvent, m_SuspendEvent, m_lock_ExecMode, EmuConfig,
                   epc, isBlocking, lastWrite, ack>>
    /\ UNCHANGED recVars

\* Resume: the pending resets are consumed.
Resume_Reset(t) ==
    /\ pc[t] = "R_reset"
    /\ IF ResetPending
       THEN /\ cacheFilled' = FALSE
            /\ m_resetRecompilers' = FALSE
            /\ m_resetProfilers' = FALSE
            /\ clears' = [clears EXCEPT ![t] = clears[t] + 1]
       ELSE UNCHANGED <<cacheFilled, m_resetRecompilers, m_resetProfilers, clears>>
    /\ pc' = [pc EXCEPT ![t] = "R_run"]
    /\ mon' = MonStep(t)
    /\ UNCHANGED <<m_ExecMode, m_ResumeEvent, m_SuspendEvent, m_lock_ExecMode, EmuConfig,
                   epc, isBlocking, lastWrite, ack>>
    /\ UNCHANGED recVars

\* Resume: m_ExecMode = ExecMode_Running, after the scope of the lock.
Resume_Run(t) ==
    /\ pc[t] = "R_run"
    /\ m_ExecMode' = "Running"
    /\ lastWrite' = [site |-> "Resume228", locked |-> m_lock_ExecMode = Ctl(t)]
    /\ pc' = [pc EXCEPT ![t] = "R_post"]
    /\ mon' = MonStep(t)
    /\ UNCHANGED <<m_ResumeEvent, m_SuspendEvent, m_resetRecompilers, m_resetProfilers,
                   m_lock_ExecMode, EmuConfig, cacheFilled, epc, isBlocking, ack, clears>>
    /\ UNCHANGED recVars

\* Resume: m_ResumeEvent.Post(), and the return.
Resume_Post(t) ==
    /\ pc[t] = "R_post"
    /\ m_ResumeEvent < MaxSem
    /\ m_ResumeEvent' = SemPost(m_ResumeEvent)
    /\ pc' = [pc EXCEPT ![t] = "idle"]
    /\ clears' = [clears EXCEPT ![t] = 0]
    /\ mon' = MonReturn(t)
    /\ UNCHANGED <<m_ExecMode, m_SuspendEvent, m_resetRecompilers, m_resetProfilers,
                   m_lock_ExecMode, EmuConfig, cacheFilled, epc, isBlocking, lastWrite, ack>>
    /\ UNCHANGED recVars

(***************************************************************************)
(* CoreEmuThread::Suspend( isBlocking ), called by control thread t.       *)
(***************************************************************************)

\* Suspend: the IsSelf/IsRunning test passes; ScopedLock locker( m_lock_ExecMode ).
Suspend_Call(t, b) ==
    /\ pc[t] = "idle"
    /\ m_lock_ExecMode = NoThread
    /\ m_lock_ExecMode' = Ctl(t)
    /\ isBlocking' = [isBlocking EXCEPT ![t] = b]
    /\ pc' = [pc EXCEPT ![t] = "S_check"]
    /\ mon' = MonStep(t)
    /\ UNCHANGED <<m_ExecMode, m_ResumeEvent, m_SuspendEvent, m_resetRecompilers,
                   m_resetProfilers, EmuConfig, cacheFilled, epc, lastWrite, ack, clears>>
    /\ UNCHANGED storeVars

\* Suspend( isBlocking ) called on its own, not from inside a StateRecovery call.
Suspend_Enter(t, b) == Suspend_Call(t, b) /\ UNCHANGED callVars

\* Suspend: the tests made under the lock; the lock is released on every path.
Suspend_Check(t) ==
    /\ pc[t] = "S_check"
    /\ m_lock_ExecMode = Ctl(t)
    /\ m_lock_ExecMode' = NoThread
    /\ IF m_ExecMode = "Suspended" \/ m_ExecMode = "Idle"
       THEN /\ pc' = [pc EXCEPT ![t] = "idle"]
            /\ isBlocking' = [isBlocking EXCEPT ![t] = TRUE]
            /\ UNCHANGED <<m_ExecMode, lastWrite, ack>>
       ELSE /\ IF m_ExecMode = "Running"
               THEN /\ m_ExecMode' = "Suspending"
                    /\ lastWrite' = [site |-> "Suspend253", locked |-> m_lock_ExecMode = Ctl(t)]
                    /\ ack' = [ack EXCEPT ![t] = "pending"]
               ELSE UNCHANGED <<m_ExecMode, lastWrite, ack>>
            /\ pc' = [pc EXCEPT ![t] = "S_wait"]
            /\ UNCHANGED isBlocking
    /\ mon' = MonStep(t)
    /\ UNCHANGED <<m_ResumeEvent, m_SuspendEvent, m_resetRecompilers, m_resetProfilers,
                   EmuConfig, cacheFilled, epc, clears>>
    /\ UNCHANGED recVars

\* Suspend: m_SuspendEvent.WaitGui(), whatever isBlocking is, and the return.
Suspend_Wait(t) ==
    /\ pc[t] = "S_wait"
    /\ SemCanWait(m_SuspendEvent)
    /\ m_SuspendEvent' = SemWait(m_SuspendEvent)
    /\ pc' = [pc EXCEPT ![t] = "idle"]
    /\ isBlocking' = [isBlocking EXCEPT ![t] = TRUE]
    /\ ack' = [ack EXCEPT ![t] = "na"]
    /\ mon' = MonStep(t)
    /\ UNCHANGED <<m_ExecMode, m_ResumeEvent, m_resetRecompilers, m_resetProfilers,
                   m_lock_ExecMode, EmuConfig, cacheFilled, epc, lastWrite, clears>>
    /\ UNCHANGED recVars

(***************************************************************************)
(* CoreEmuThread::ApplySettings( src ), called by control thread t.        *)
(***************************************************************************)

\* src differs from the active configuration in the profiler group only.
OnlyProfilerDiffers(src) ==
    /\ src.Profiler # EmuConfig.Profiler
    /\ src.Cpu = EmuConfig.Cpu
    /\ src.Gamefixes = EmuConfig.Gamefixes
    /\ src.Speedhacks = EmuConfig.Speedhacks

\* The value ApplySettings gives m_resetRecompilers.
NewResetRecompilers(src) ==
    (src.Cpu # EmuConfig.Cpu) \/ (src.Gamefixes # EmuConfig.Gamefixes)
        \/ (src.Speedhacks # EmuConfig.Speedhacks)

\* The value ApplySettings gives m_resetProfilers.
NewResetProfilers(src) == src.Profiler # EmuConfig.Profiler

ApplySettings(t, src) ==
    /\ pc[t] = "idle"
    /\ m_resetRecompilers' = NewResetRecompilers(src)
    /\ m_resetProfilers' = NewResetProfilers(src)
    /\ EmuConfig' = src
    /\ mon' = IF OnlyProfilerDiffers(src) /\ (\A u \in CtlThreads : ~InResume(u))
              THEN MonArmed ELSE MonOff
    /\ UNCHANGED <<m_ExecMode, m_ResumeEvent, m_SuspendEvent, m_lock_ExecMode, cacheFilled,
                   epc, pc, isBlocking, lastWrite, ack, clears>>
    /\ UNCHANGED recVars

(***************************************************************************)
(* The execution thread: CoreEmuThread::ExecuteTask and StateCheck.        *)
(***************************************************************************)

\* A variant of StartLoopExits that waits only while the mode is Suspended.
StartLoopExits_OnlySuspendedWaits == m_ExecMode # "Suspended"

\* ExecuteTask: the test of  while( m_ExecMode != ExecMode_Running ).
StartLoopExits == m_ExecMode = "Running"

ExecuteTask_Start ==
    /\ epc = "start"
    /\ epc' = IF StartLoopExits THEN "init" ELSE "startWait"
    /\ UNCHANGED <<m_ExecMode, m_ResumeEvent, m_SuspendEvent, m_resetRecompilers,
                   m_resetProfilers, m_lock_ExecMode, EmuConfig, cacheFilled, pc, isBlocking,
                   lastWrite, ack, clears, mon>>
    /\ UNCHANGED recVars

\* ExecuteTask: m_ResumeEvent.WaitGui() in the start loop.
ExecuteTask_StartWait ==
    /\ epc = "startWait"
    /\ SemCanWait(m_ResumeEvent)
    /\ m_ResumeEvent' = SemWait(m_ResumeEvent)
    /\ epc' = "start"
    /\ UNCHANGED <<m_ExecMode, m_SuspendEvent, m_resetRecompilers, m_resetProfilers,
                   m_lock_ExecMode, EmuConfig, cacheFilled, pc, isBlocking, lastWrite, ack,
                   clears, mon>>
    /\ UNCHANGED recVars

\* StateRecovery::HasState
HasState == g_RecoveryState # Null \/ g_gsRecoveryState # Null

\* CpuInitializeMess: cpuReset and SysClearExecutionCache, then Recover() if
\* there is a recovery state and the boot otherwise; then StateCheck is called.
CpuInitializeMess ==
    /\ epc = "init"
    /\ cacheFilled' = FALSE
    /\ epc' = IF HasState THEN "recover" ELSE "check"
    /\ UNCHANGED <<m_ExecMode, m_ResumeEvent, m_SuspendEvent, m_resetRecompilers,
                   m_resetProfilers, m_lock_ExecMode, EmuConfig, pc, isBlocking, lastWrite,
                   ack, clears, mon>>
    /\ UNCHANGED recVars

\* StateCheck: the switch on m_ExecMode, read without the lock.  In case Idle
\* the DevAssert fails; where it is compiled out the case breaks.
StateCheck_Switch ==
    /\ epc = "check"
    /\ epc' = CASE m_ExecMode = "Idle" -> "exec"
              [] m_ExecMode = "Running" -> "exec"
              [] m_ExecMode = "Suspending" -> "sc_lock"
              [] m_ExecMode = "Suspended" -> "sc_loop"
    /\ UNCHANGED <<m_ExecMode, m_ResumeEvent, m_SuspendEvent, m_resetRecompilers,
                   m_resetProfilers, m_lock_ExecMode, EmuConfig, cacheFilled, pc, isBlocking,
                   lastWrite, ack, clears, mon>>
    /\ UNCHANGED recVars

\* StateCheck, case Suspending: ScopedLock locker( m_lock_ExecMode ).
StateCheck_Lock ==
    /\ epc = "sc_lock"
    /\ m_lock_ExecMode = NoThread
    /\ m_lock_ExecMode' = EmuThread
    /\ epc' = "sc_set"
    /\ UNCHANGED <<m_ExecMode, m_ResumeEvent, m_SuspendEvent, m_resetRecompilers,
                   m_resetProfilers, EmuConfig, cacheFilled, pc, isBlocking, lastWrite, ack,
                   clears, mon>>
    /\ UNCHANGED recVars

\* StateCheck, case Suspending: m_ExecMode = ExecMode_Suspended.
StateCheck_SetSuspended ==
    /\ epc = "sc_set"
    /\ m_ExecMode' = "Suspended"
    /\ lastWrite' = [site |-> "StateCheck152", locked |-> m_lock_ExecMode = EmuThread]
    /\ ack' = [t \in CtlThreads |-> IF ack[t] = "pending" THEN "done" ELSE ack[t]]
    /\ epc' = "sc_post"
    /\ UNCHANGED <<m_ResumeEvent, m_SuspendEvent, m_resetRecompilers, m_resetProfilers,
                   m_lock_ExecMode, EmuConfig, cacheFilled, pc, isBlocking, clears, mon>>
    /\ UNCHANGED recVars

\* StateCheck, case Suspending: m_SuspendEvent.Post(), end of the lock's scope,
\* and the fall through into case Suspended.
StateCheck_Post ==
    /\ epc = "sc_post"
    /\ m_SuspendEvent < MaxSem
    /\ m_SuspendEvent' = SemPost(m_SuspendEvent)
    /\ m_lock_ExecMode' = NoThread
    /\ epc' = "sc_loop"
    /\ UNCHANGED <<m_ExecMode, m_ResumeEvent, m_resetRecompilers, m_resetProfilers,
                   EmuConfig, cacheFilled, pc, isBlocking, lastWrite, ack, clears, mon>>
    /\ UNCHANGED recVars

\* A variant of SuspendedLoopStays that goes on as soon as the resume event has
\* been posted, without looking at the mode again.
SuspendedLoopStays_UntilPosted == m_ExecMode = "Suspended" /\ m_ResumeEvent = 0

\* StateCheck, case Suspended: the test of  while( m_ExecMode == ExecMode_Suspended ).
SuspendedLoopStays == m_ExecMode = "Suspended"

StateCheck_Loop ==
    /\ epc = "sc_loop"
    /\ epc' = IF SuspendedLoopStays THEN "sc_wait" ELSE "exec"
    /\ UNCHANGED <<m_ExecMode, m_ResumeEvent, m_SuspendEvent, m_resetRecompilers,
                   m_resetProfilers, m_lock_ExecMode, EmuConfig, cacheFilled, pc, isBlocking,
                   lastWrite, ack, clears, mon>>
    /\ UNCHANGED recVars

\* StateCheck, case Suspended: m_ResumeEvent.WaitGui().
StateCheck_Wait ==
    /\ epc = "sc_wait"
    /\ SemCanWait(m_ResumeEvent)
    /\ m_ResumeEvent' = SemWait(m_ResumeEvent)
    /\ epc' = "sc_loop"
    /\ UNCHANGED <<m_ExecMode, m_SuspendEvent, m_resetRecompilers, m_resetProfilers,
                   m_lock_ExecMode, EmuConfig, cacheFilled, pc, isBlocking, lastWrite, ack,
                   clears, mon>>
    /\ UNCHANGED recVars

\* CpuExecute: the CPU loop translates and runs code up to its next safe
\* point, where it calls StateCheck.
CpuExecute ==
    /\ epc = "exec"
    /\ cacheFilled' = TRUE
    /\ epc' = "check"
    /\ UNCHANGED <<m_ExecMode, m_ResumeEvent, m_SuspendEvent, m_resetRecompilers,
                   m_resetProfilers, m_lock_ExecMode, EmuConfig, pc, isBlocking, lastWrite,
                   ack, clears, mon>>
    /\ UNCHANGED recVars

(***************************************************************************)
(* The savestate byte format, as the saving and loading classes of         *)
(* RecoverySystem.cpp produce and consume it.  A machine is reduced to the *)
(* bytes of its CPU/memory region, the freeze data the GS plugin reports   *)
(* (payload) and the bytes the GS writes in its second pass, gsFreeze      *)
(* (block).                                                                *)
(***************************************************************************)

\* Longest GS plugin payload.
MaxPayload == 1
\* Size of the structure gsFreeze() writes and reads.
GsBlockLen == 1

ByteVals == {0, 1}

SeqsOfLen(n) == [1..n -> ByteVals]
Payloads == UNION {SeqsOfLen(n) : n \in 0..MaxPayload}
Blocks == SeqsOfLen(GsBlockLen)
Machines == [payload : Payloads, block : Blocks]

\* A u32 in memory, least significant byte first.
U32(n) == <<n % 256, (n \div 256) % 256, (n \div 65536) % 256, (n \div 16777216) % 256>>

\* *((u32*)buffer.GetPtr(off)); a read past the end of the buffer is unspecified
\* and yields 0 here.
ByteAt(bytes, off) == IF off + 1 \in DOMAIN bytes THEN bytes[off + 1] ELSE 0
ReadU32(bytes, off) ==
    ByteAt(bytes, off) + 256 * ByteAt(bytes, off + 1) + 65536 * ByteAt(bytes, off + 2)
        + 16777216 * ByteAt(bytes, off + 3)

\* The len bytes at buffer.GetPtr(off).
BytesAt(bytes, off, len) == [i \in 1..len |-> ByteAt(bytes, off + i - 1)]

\* Bytes data stored at index idx of a growable array.
WriteAt(mem, idx, data) ==
    LET size == IF idx + Len(data) > Len(mem) THEN idx + Len(data) ELSE Len(mem)
    IN  [i \in 1..size |-> IF i > idx /\ i <= idx + Len(data) THEN data[i - idx]
                           ELSE IF i <= Len(mem) THEN mem[i] ELSE 0]

\* A memSavingState / memLoadingState over a buffer: m_memory and m_idx.
NewState(bytes) == [m_memory |-> bytes, m_idx |-> 0]

\* memSavingState::FreezeMem: append at m_idx.
FreezeMem(st, data) ==
    [m_memory |-> WriteAt(st.m_memory, st.m_idx, data), m_idx |-> st.m_idx + Len(data)]

\* memSavingState::FreezePlugin: the generic record [u32 length][payload].
memSavingState_FreezePlugin(st, m) == FreezeMem(FreezeMem(st, U32(Len(m.payload))), m.payload)

\* memSavingState::gsFreeze: the bytes of the GS second pass, no prefix.
memSavingState_gsFreeze(st, m) == FreezeMem(st, m.block)

\* A variant of JustGsSavingState_gsFreeze whose length word counts its own
\* four bytes.
JustGsSavingState_gsFreeze_CountsPrefix(st, m) ==
    LET oldmidx == st.m_idx
        after == memSavingState_gsFreeze([st EXCEPT !.m_idx = oldmidx + 4], m)
        len == after.m_idx - oldmidx
    IN  [after EXCEPT !.m_memory = WriteAt(after.m_memory, oldmidx, U32(len))]

\* JustGsSavingState::gsFreeze: leaves four bytes, lets the GS write, then
\* stores the number of bytes written in the four bytes.
JustGsSavingState_gsFreeze(st, m) ==
    LET oldmidx == st.m_idx
        after == memSavingState_gsFreeze([st EXCEPT !.m_idx = oldmidx + 4], m)
        len == (after.m_idx - oldmidx) - 4
    IN  [after EXCEPT !.m_memory = WriteAt(after.m_memory, oldmidx, U32(len))]

\* The pass of MakeGsOnly: eddie.FreezePlugin( "GS", gsSafeFreeze ); eddie.gsFreeze().
JustGsBytes(m) ==
    JustGsSavingState_gsFreeze(memSavingState_FreezePlugin(NewState(<<>>), m), m).m_memory

\* The layout [u32 payload_length][payload][u32 block_length][block].
PartialLayout(payload, block) == U32(Len(payload)) \o payload \o U32(Len(block)) \o block

\* RecoveryMemSavingState::FreezePlugin for the GS: with a GS-only buffer the
\* first len+4 bytes of that buffer are copied instead of asking the plugin.
RecoveryMemSavingState_FreezePlugin(st, m) ==
    IF g_gsRecoveryState # Null
    THEN LET len == ReadU32(Bytes(g_gsRecoveryState), 0)
         IN  FreezeMem(st, BytesAt(Bytes(g_gsRecoveryState), 0, len + 4))
    ELSE memSavingState_FreezePlugin(st, m)

\* RecoveryMemSavingState::gsFreeze: with a GS-only buffer, gslen bytes are
\* copied from offset pluginlen+8 of that buffer.
RecoveryMemSavingState_gsFreeze(st, m) ==
    IF g_gsRecoveryState # Null
    THEN LET pluginlen == ReadU32(Bytes(g_gsRecoveryState), 0)
             gslen == ReadU32(Bytes(g_gsRecoveryState), pluginlen + 4)
         IN  FreezeMem(st, BytesAt(Bytes(g_gsRecoveryState), pluginlen + 8, gslen))
    ELSE memSavingState_gsFreeze(st, m)

\* RecoveryZipSavingState::FreezePlugin for the GS.  The state of a gzSavingState
\* is the stream written so far, before compression: gzwrite appends to it.
RecoveryZipSavingState_FreezePlugin(st, m) ==
    IF g_gsRecoveryState # Null
    THEN LET len == ReadU32(Bytes(g_gsRecoveryState), 0)
         IN  FreezeMem(st, BytesAt(Bytes(g_gsRecoveryState), 0, len + 4))
    ELSE memSavingState_FreezePlugin(st, m)

\* RecoveryZipSavingState::gsFreeze: with a GS-only buffer, gslen bytes are
\* written from offset pluginlen+4 of that buffer.
RecoveryZipSavingState_gsFreeze(st, m) ==
    IF g_gsRecoveryState # Null
    THEN LET pluginlen == ReadU32(Bytes(g_gsRecoveryState), 0)
             gslen == ReadU32(Bytes(g_gsRecoveryState), pluginlen + 4)
         IN  FreezeMem(st, BytesAt(Bytes(g_gsRecoveryState), pluginlen + 4, gslen))
    ELSE memSavingState_gsFreeze(st, m)

\* The CPU/memory region of a snapshot, the same in all machines here.
CpuRegion == <<0>>

\* SaveState::FreezeAll reduced to the CPU/memory region followed by the GS:
\* its generic record, then its second pass.
FreezeCpu(st, m) == FreezeMem(st, CpuRegion)

\* RecoveryMemSavingState().FreezeAll() into an empty buffer.
RecoveryMemBytes(m) ==
    RecoveryMemSavingState_gsFreeze(
        RecoveryMemSavingState_FreezePlugin(FreezeCpu(NewState(<<>>), m), m), m).m_memory

\* RecoveryZipSavingState( file ).FreezeAll(), the stream after the version word.
RecoveryZipBytes(m) ==
    RecoveryZipSavingState_gsFreeze(
        RecoveryZipSavingState_FreezePlugin(FreezeCpu(NewState(<<>>), m), m), m).m_memory

\* The generic pass on the same machine: what memSavingState / gzSavingState
\* write when nothing is overridden.
GenericBytes(m) ==
    memSavingState_gsFreeze(memSavingState_FreezePlugin(FreezeCpu(NewState(<<>>), m), m), m).m_memory

\* A file as gzwrite produced it: the version word g_SaveVersion, then the body.
SavedFile(body) == [header |-> "g_SaveVersion", body |-> body]

\* Recover() on the GS-only buffer: eddie.FreezePlugin( "GS", gsSafeFreeze ),
\* eddie.Freeze( dummylen ), eddie.gsFreeze() of a memLoadingState.
LoadGsOnly(bytes) ==
    LET len == ReadU32(bytes, 0)
        payload == BytesAt(bytes, 4, len)
        afterPlugin == 4 + len
        afterDummy == afterPlugin + 4
    IN  [m_idx |-> afterDummy + GsBlockLen, payload |-> payload,
         block |-> BytesAt(bytes, afterDummy, GsBlockLen)]

\* Recover() on the full buffer: memLoadingState( *g_RecoveryState ).FreezeAll().
LoadFull(bytes) ==
    LET start == Len(CpuRegion)
        len == ReadU32(bytes, start)
    IN  [m_idx |-> start + 4 + len + GsBlockLen, payload |-> BytesAt(bytes, start + 4, len),
         block |-> BytesAt(bytes, start + 4 + len, GsBlockLen)]

(***************************************************************************)
(* namespace StateRecovery.  Its calls are made by one control thread, the *)
(* one that also starts and ends the emulation session; Recover() is made  *)
(* by the execution thread from CpuInitializeMess.  A call that suspends   *)
(* or resumes goes through the steps of CoreEmuThread::Suspend and Resume. *)
(***************************************************************************)

StoreCaller == CHOOSE t \in CtlThreads : \A u \in CtlThreads : t <= u

\* The variables of the execution controller that no StateRecovery code writes.
syncVars == <<m_ExecMode, m_ResumeEvent, m_SuspendEvent, m_resetRecompilers, m_resetProfilers,
              m_lock_ExecMode, EmuConfig, pc, isBlocking, lastWrite, ack, clears, mon>>

\* EmulationInProgress(): the session's thread object exists and its thread,
\* started by the constructor, is alive.
EmulationInProgress == g_EmuThread

\* Control thread t is in no call at all.
AtRest(t) == pc[t] = "idle" /\ op[t] = "none"

\* Control thread t is inside a StateRecovery call and not inside Suspend() or
\* Resume().
InStore(t, where) == pc[t] = "idle" /\ op[t] = where

\* What atCall keeps of the state in which a StateRecovery call is made.
CallState ==
    [mode |-> m_ExecMode, session |-> g_EmuThread, full |-> g_RecoveryState # Null,
     gs |-> g_gsRecoveryState # Null]

\* The call of control thread t returns or throws; how is kept in result.
Return(t, how) ==
    /\ op' = [op EXCEPT ![t] = "none"]
    /\ result' = how

\* The caller starts a call that is not of StateRecovery: what was recorded
\* about its last StateRecovery call is forgotten.
Forget ==
    /\ op' = op
    /\ result' = "none"
    /\ atCall' = NoCall
    /\ savedFile' = Null

\* A variant of Cleared that deletes the full buffer only.
Cleared_FullOnly == [full |-> Null, gs |-> g_gsRecoveryState]

\* The two buffers after StateRecovery::Clear: safe_delete of both.
Cleared == [full |-> Null, gs |-> Null]

\* StateRecovery::Clear called by the control thread.
StateRecovery_Clear(t) ==
    /\ AtRest(t)
    /\ HasState
    /\ g_RecoveryState' = Cleared.full
    /\ g_gsRecoveryState' = Cleared.gs
    /\ result' = "Clear"
    /\ savedFile' = Null
    /\ atCall' = CallState
    /\ UNCHANGED <<syncVars, cacheFilled, epc, g_EmuThread, op, thawed, fault>>

\* StateRecovery::Recover, on the execution thread; ends with Clear() and
\* SysClearExecutionCache().
StateRecovery_Recover ==
    /\ epc = "recover"
    /\ thawed' = IF g_RecoveryState # Null THEN "full"
                 ELSE IF g_gsRecoveryState # Null THEN "gs"
                 ELSE "none"
    /\ g_RecoveryState' = Cleared.full
    /\ g_gsRecoveryState' = Cleared.gs
    /\ cacheFilled' = FALSE
    /\ epc' = "check"
    /\ UNCHANGED <<syncVars, g_EmuThread, savedFile, op, fault, result, atCall>>

\* StateRecovery::MakeGsOnly up to the test of EmulationInProgress().
MakeGsOnly_Clear(t) ==
    /\ AtRest(t)
    /\ g_RecoveryState' = Cleared.full
    /\ g_gsRecoveryState' = Cleared.gs
    /\ IF EmulationInProgress
       THEN op' = [op EXCEPT ![t] = "MG_pass"] /\ result' = result
       ELSE Return(t, "MakeGsOnly:no session")
    /\ atCall' = CallState
    /\ savedFile' = Null
    /\ UNCHANGED <<syncVars, cacheFilled, epc, g_EmuThread, thawed, fault>>

\* StateRecovery::MakeGsOnly: the new buffer and the pass of JustGsSavingState
\* over the machine as it is at that time.
MakeGsOnly_Pass(t) ==
    /\ InStore(t, "MG_pass")
    /\ \E m \in Machines : g_gsRecoveryState' = Buf(JustGsBytes(m))
    /\ Return(t, "MakeGsOnly:done")
    /\ UNCHANGED <<syncVars, cacheFilled, epc, g_EmuThread, g_RecoveryState, savedFile,
                   thawed, fault, atCall>>

\* A variant of MakeFull_Enter without the call of SysSuspend().
MakeFull_Enter_NoSuspend(t) ==
    /\ AtRest(t)
    /\ g_RecoveryState = Null
    /\ EmulationInProgress
    /\ op' = [op EXCEPT ![t] = "MF_new"]
    /\ atCall' = CallState
    /\ result' = result
    /\ savedFile' = Null
    /\ UNCHANGED <<syncVars, cacheFilled, epc, storeVars>>

\* StateRecovery::MakeFull up to SysSuspend(), which enters Suspend( true ).
MakeFull_Enter(t) ==
    /\ AtRest(t)
    /\ g_RecoveryState = Null
    /\ EmulationInProgress
    /\ Suspend_Call(t, TRUE)
    /\ op' = [op EXCEPT ![t] = "MF_new"]
    /\ atCall' = CallState
    /\ result' = result
    /\ savedFile' = Null

\* StateRecovery::MakeFull: g_RecoveryState = new SafeArray<u8>.
MakeFull_New(t) ==
    /\ InStore(t, "MF_new")
    /\ g_RecoveryState' = Buf(<<>>)
    /\ op' = [op EXCEPT ![t] = "MF_pass"]
    /\ UNCHANGED <<syncVars, cacheFilled, epc, g_EmuThread, g_gsRecoveryState, savedFile,
                   thawed, fault, result, atCall>>

\* A variant of MakeFull_GsAfterPass that keeps the GS-only buffer.
MakeFull_GsAfterPass_Kept == g_gsRecoveryState

\* What MakeFull does to the GS-only buffer after a pass that succeeded:
\* safe_delete( g_gsRecoveryState ).
MakeFull_GsAfterPass == Null

\* A variant of MakeFull_FullAfterError that keeps the partly written buffer.
MakeFull_FullAfterError_Kept == g_RecoveryState

\* What MakeFull does to the full buffer when the pass threw a RuntimeError:
\* safe_delete( g_RecoveryState ).
MakeFull_FullAfterError == Null

\* StateRecovery::MakeFull: the pass RecoveryMemSavingState().FreezeAll(), then
\* safe_delete( g_gsRecoveryState ); or the pass throws a RuntimeError, the
\* alert is shown and safe_delete( g_RecoveryState ).  MakeFull then returns.
MakeFull_Pass(t) ==
    /\ InStore(t, "MF_pass")
    /\ \/ /\ \E m \in Machines : g_RecoveryState' = Buf(RecoveryMemBytes(m))
          /\ g_gsRecoveryState' = MakeFull_GsAfterPass
          /\ Return(t, "MakeFull:done")
       \/ /\ g_RecoveryState' = MakeFull_FullAfterError
          /\ g_gsRecoveryState' = g_gsRecoveryState
          /\ Return(t, "MakeFull:alert")
    /\ UNCHANGED <<syncVars, cacheFilled, epc, g_EmuThread, savedFile, thawed, fault,
                   atCall>>

\* StateRecovery::SaveToFile( file ) and SaveToSlot( num ), which calls it with
\* the slot's file name: SysSuspend(), which enters Suspend( true ) when there
\* is a session's thread and does nothing otherwise.
SaveToFile_Enter(t) ==
    /\ AtRest(t)
    /\ op' = [op EXCEPT ![t] = "SF_mem"]
    /\ atCall' = CallState
    /\ result' = result
    /\ savedFile' = Null
    /\ IF g_EmuThread
       THEN Suspend_Call(t, TRUE)
       ELSE UNCHANGED <<syncVars, cacheFilled, epc, storeVars>>

\* StateRecovery::SaveToFile: without a full buffer, RecoveryMemSavingState()
\* binds its memSavingState to *g_RecoveryState, a null pointer, and FreezeAll
\* writes through it.  The behaviour is undefined: the process dies there, or
\* the call goes on with no buffer made.  A process that died takes no step.
SaveToFile_MemPass(t) ==
    /\ InStore(t, "SF_mem")
    /\ IF g_RecoveryState = Null
       THEN /\ fault' = "nullDeref"
            /\ \/ op' = [op EXCEPT ![t] = "crashed"] /\ epc' = "gone"
               \/ op' = [op EXCEPT ![t] = "SF_resume"] /\ epc' = epc
       ELSE /\ fault' = fault
            /\ op' = [op EXCEPT ![t] = "SF_resume"]
            /\ epc' = epc
    /\ UNCHANGED <<syncVars, cacheFilled, g_EmuThread, g_RecoveryState, g_gsRecoveryState,
                   savedFile, thawed, result, atCall>>

\* StateRecovery::SaveToFile: SysResume(), which enters Resume() when there is
\* a session's thread.
SaveToFile_Resume(t) ==
    /\ InStore(t, "SF_resume")
    /\ op' = [op EXCEPT ![t] = "SF_write"]
    /\ UNCHANGED <<result, atCall, savedFile>>
    /\ IF g_EmuThread
       THEN Resume_Call(t)
       ELSE UNCHANGED <<syncVars, cacheFilled, epc, storeVars>>

\* StateRecovery::SaveToFile after SysResume(): with a full buffer the version
\* word and the buffer are written, unless gzopen fails and CreateStream is
\* thrown; without one the call returns when no emulation is in progress and
\* goes on to the streamed pass otherwise.
SaveToFile_Write(t) ==
    /\ InStore(t, "SF_write")
    /\ IF g_RecoveryState # Null
       THEN \/ /\ savedFile' = SavedFile(Bytes(g_RecoveryState))
               /\ Return(t, "SaveToFile:written")
            \/ /\ savedFile' = savedFile
               /\ Return(t, "SaveToFile:CreateStream")
       ELSE /\ savedFile' = savedFile
            /\ IF EmulationInProgress
               THEN op' = [op EXCEPT ![t] = "SF_zip"] /\ result' = result
               ELSE Return(t, "SaveToFile:no session")
    /\ UNCHANGED <<syncVars, cacheFilled, epc, g_EmuThread, g_RecoveryState,
                   g_gsRecoveryState, thawed, fault, atCall>>

\* StateRecovery::SaveToFile: RecoveryZipSavingState( file ).FreezeAll() over
\* the machine as it is at that time.
SaveToFile_ZipPass(t) ==
    /\ InStore(t, "SF_zip")
    /\ \E m \in Machines : savedFile' = SavedFile(RecoveryZipBytes(m))
    /\ Return(t, "SaveToFile:streamed")
    /\ UNCHANGED <<syncVars, cacheFilled, epc, g_EmuThread, g_RecoveryState,
                   g_gsRecoveryState, thawed, fault, atCall>>

\* SysSuspend() called on its own: Suspend( true ) when there is a session's
\* thread.
SysSuspend(t) ==
    /\ g_EmuThread
    /\ AtRest(t)
    /\ Suspend_Call(t, TRUE)
    /\ Forget

\* SysResume() called on its own: Resume() when there is a session's thread.
SysResume(t) ==
    /\ g_EmuThread
    /\ AtRest(t)
    /\ Resume_Call(t)
    /\ UNCHANGED callVars

\* The end of a session: the CoreEmuThread is deleted, its destructor cancels
\* the thread, which ends at a cancellation point.
SysEndExecution(t) ==
    /\ AtRest(t)
    /\ g_EmuThread
    /\ epc \in {"startWait", "sc_wait", "check"}
    /\ g_EmuThread' = FALSE
    /\ epc' = "gone"
    /\ m_ExecMode' = "Idle"
    /\ m_ResumeEvent' = 0
    /\ m_SuspendEvent' = 0
    /\ m_resetRecompilers' = FALSE
    /\ m_resetProfilers' = FALSE
    /\ lastWrite' = [site |-> "ctor", locked |-> TRUE]
    /\ ack' = [u \in CtlThreads |-> "na"]
    /\ Forget
    /\ UNCHANGED <<m_lock_ExecMode, EmuConfig, cacheFilled, pc, isBlocking, clears, mon,
                   g_RecoveryState, g_gsRecoveryState, thawed, fault>>

\* The start of a session: a new CoreEmuThread, whose constructor starts the
\* thread.
SysExecute(t) ==
    /\ AtRest(t)
    /\ ~g_EmuThread
    /\ g_EmuThread' = TRUE
    /\ epc' = "start"
    /\ Forget
    /\ UNCHANGED <<syncVars, cacheFilled, g_RecoveryState, g_gsRecoveryState, thawed, fault>>

(***************************************************************************)
(* The system.                                                             *)
(***************************************************************************)

EmuNext ==
    \/ ExecuteTask_Start
    \/ ExecuteTask_StartWait
    \/ CpuInitializeMess
    \/ StateCheck_Switch
    \/ StateCheck_Lock
    \/ StateCheck_SetSuspended
    \/ StateCheck_Post
    \/ StateCheck_Loop
    \/ StateCheck_Wait
    \/ CpuExecute

\* The steps that continue a call a control thread is already in.
CtlContinue(t) ==
    \/ Resume_Check(t)
    \/ Resume_Wait(t)
    \/ Resume_Assert(t)
    \/ Resume_Reset(t)
    \/ Resume_Run(t)
    \/ Resume_Post(t)
    \/ Suspend_Check(t)
    \/ Suspend_Wait(t)

\* The calls a control thread may start.
CtlCall(t) ==
    \/ Resume_Enter(t)
    \/ \E b \in BOOLEAN : Suspend_Enter(t, b)
    \/ \E src \in Configs : ApplySettings(t, src)

\* The execution controller on its own: no StateRecovery call is made.
Next ==
    \/ EmuNext
    \/ \E t \in CtlThreads : CtlContinue(t)
    \/ \E t \in CtlThreads : CtlCall(t)

Spec == Init /\ [][Next]_vars

\* The execution thread where the recovery system is in use.
RecEmuNext ==
    \/ EmuNext
    \/ StateRecovery_Recover

\* The steps that continue a Suspend() or a Resume() of the one control thread;
\* with one caller Resume() never has to wait for a suspend to complete.
RecCtlContinue(t) ==
    \/ Resume_Check(t)
    \/ Resume_Assert(t)
    \/ Resume_Reset(t)
    \/ Resume_Run(t)
    \/ Resume_Post(t)
    \/ Suspend_Check(t)
    \/ Suspend_Wait(t)

\* The steps inside a StateRecovery call.
StoreContinue(t) ==
    \/ MakeGsOnly_Pass(t)
    \/ MakeFull_New(t)
    \/ MakeFull_Pass(t)
    \/ SaveToFile_MemPass(t)
    \/ SaveToFile_Resume(t)
    \/ SaveToFile_Write(t)
    \/ SaveToFile_ZipPass(t)

\* The calls the control thread may start.
StoreCall(t) ==
    \/ SysResume(t)
    \/ SysSuspend(t)
    \/ StateRecovery_Clear(t)
    \/ MakeGsOnly_Clear(t)
    \/ MakeFull_Enter(t)
    \/ SaveToFile_Enter(t)
    \/ SysEndExecution(t)
    \/ SysExecute(t)

RecNext ==
    \/ RecEmuNext
    \/ RecCtlContinue(StoreCaller)
    \/ StoreContinue(StoreCaller)
    \/ StoreCall(StoreCaller)

\* The execution controller together with the recovery system.
RecSpec == Init /\ [][RecNext]_vars


\* The execution thread and every call in progress keep being scheduled; a
\* control thread is never obliged to start a call.
Fairness ==
    /\ WF_vars(EmuNext)
    /\ \A t \in CtlThreads : WF_vars(CtlContinue(t))

FairSpec == Spec /\ Fairness

TypeOK ==
    /\ m_ExecMode \in ExecModes
    /\ m_ResumeEvent \in 0..MaxSem
    /\ m_SuspendEvent \in 0..MaxSem
    /\ m_resetRecompilers \in BOOLEAN
    /\ m_resetProfilers \in BOOLEAN
    /\ EmuConfig \in Pcsx2Config
    /\ cacheFilled \in BOOLEAN

(***************************************************************************)
(* Properties.                                                             *)
(***************************************************************************)

\* Control thread t is parked on the suspend-completion signal.
BlockedOnSuspendEvent(t) == pc[t] = "S_wait" \/ pc[t] = "R_wait"

\* C1 as stated: the execution mode never goes from Suspending directly to
\* Running; every Suspending is followed by Suspended before the next Running.
C1_NoSuspendingToRunning ==
    [][~(m_ExecMode = "Suspending" /\ m_ExecMode' = "Running")]_vars

\* C1 amended: the execution mode goes from Suspending directly to Running
\* only in a step of Resume(): either under the lock, when Resume finds
\* Suspending with no reset pending (the rescinded request), or in its final
\* write after the lock's scope.  Suspend and StateCheck never make that
\* transition, and Resume never makes it under the lock while a reset is pending.
C1_OnlyResumeLeavesSuspending ==
    [][(m_ExecMode = "Suspending" /\ m_ExecMode' = "Running") =>
        \E t \in CtlThreads :
            \/ /\ pc[t] = "R_check" /\ pc'[t] = "idle"
               /\ m_lock_ExecMode = Ctl(t)
               /\ ~ResetPending
            \/ /\ pc[t] = "R_run" /\ pc'[t] = "R_post"]_vars

\* C1 witness: a Resume() has rescinded a suspend request under the lock while
\* the suspender is still waiting for an acknowledgement.
C1_Rescinded ==
    /\ lastWrite.site = "Resume212"
    /\ m_ExecMode = "Running"
    /\ \E t \in CtlThreads : pc[t] = "S_wait" /\ ack[t] = "pending"

\* C2: a Suspend() call that found Running and set Suspending returns only
\* after the execution thread has moved the mode to Suspended for that request.
C2_SuspendReturnsAfterSuspended ==
    [][\A t \in CtlThreads :
        (pc[t] = "S_wait" /\ pc'[t] = "idle") => ack[t] # "pending"]_vars

\* The execution thread keeps reaching safe points, and no Resume() is held
\* at its post by the cap MaxSem for ever.
KeepsReachingSafePoints ==
    /\ []<>(epc = "check")
    /\ []<>(\A u \in CtlThreads : pc[u] # "R_post")

\* C3: provided the execution thread keeps reaching safe points, every caller
\* blocked on the suspend-completion signal (in Suspend or in the reset-pending
\* branch of Resume) eventually returns from the wait.
C3_BlockedCallersReturn ==
    \A t \in CtlThreads :
        KeepsReachingSafePoints => (BlockedOnSuspendEvent(t) ~> ~BlockedOnSuspendEvent(t))

\* C4: the wait on the suspend-completion signal in Suspend happens only when
\* the call is blocking; Suspend( false ) returns without waiting.
C4_NonBlockingSuspendDoesNotWait ==
    \A t \in CtlThreads : pc[t] = "S_wait" => isBlocking[t]

\* C5: Resume() evaluates its assertion, clears the translated-code cache and
\* sets Running only while the mode is Suspended or Idle.
C5_ResumeActsOnlyWhenStopped ==
    \A t \in CtlThreads :
        (pc[t] = "R_assert" \/ (pc[t] = "R_reset" /\ ResetPending) \/ pc[t] = "R_run")
            => ResumeAssertion

\* C6: every write to the execution mode is made by a thread that holds
\* m_lock_ExecMode.
C6_ModeWrittenUnderLock == lastWrite.locked

\* C7: once a Resume() has written the mode it is never Idle again, and the
\* execution thread never stands at the switch of StateCheck with the mode Idle.
C7_NeverIdleAgain ==
    /\ lastWrite.site # "ctor" => m_ExecMode # "Idle"
    /\ epc = "check" => m_ExecMode # "Idle"

\* C7 witness: the execution thread has run code and is at a safe point, the
\* last write of the mode being the one at the end of a Resume().
C7_AtSafePointAfterResume ==
    /\ epc = "check"
    /\ lastWrite.site = "Resume228"
    /\ cacheFilled

\* C8: a Resume() that finds the mode Running under the lock returns at once
\* and leaves the mode, the resume event, the reset flags and the
\* translated-code cache as they were.
C8_ResumeWhileRunningIsNoOp ==
    [][\A t \in CtlThreads :
        (pc[t] = "R_check" /\ m_ExecMode = "Running" /\ pc'[t] # "R_check") =>
            /\ pc'[t] = "idle"
            /\ UNCHANGED <<m_ExecMode, m_ResumeEvent, m_SuspendEvent, m_resetRecompilers,
                           m_resetProfilers, cacheFilled, EmuConfig>>]_vars

\* C8 witness: a Resume() holds the lock and finds the mode Running while a
\* reset is pending and the cache holds code.
C8_ResumeFindsRunning ==
    \E t \in CtlThreads :
        /\ pc[t] = "R_check"
        /\ m_ExecMode = "Running"
        /\ ResetPending
        /\ cacheFilled

\* C9: a reset flag that is set goes back to false only in the step of a
\* Resume() that clears the translated-code cache.
C9_FlagsClearedOnlyByResume ==
    [][((m_resetRecompilers /\ ~m_resetRecompilers') \/ (m_resetProfilers /\ ~m_resetProfilers'))
        => \E t \in CtlThreads :
              pc[t] = "R_reset" /\ pc'[t] = "R_run" /\ ~cacheFilled']_vars

\* ApplySettings has just been given a configuration that differs from the
\* active one in the profiler group only.
AppliedProfilerOnly ==
    /\ EmuConfig' # EmuConfig
    /\ OnlyProfilerDiffers(EmuConfig')

\* C10 as stated: ApplySettings with only the profiler group changed sets
\* m_resetProfilers and not m_resetRecompilers, and the next Resume() call,
\* however it returns, has cleared the cache exactly once and leaves both
\* flags false.
C10_NextResumeAlwaysConsumes ==
    [][/\ AppliedProfilerOnly => (m_resetProfilers' /\ ~m_resetRecompilers')
       /\ \A t \in CtlThreads :
            (mon = MonResume(t) /\ InResume(t) /\ pc'[t] = "idle") =>
                /\ clears[t] = 1
                /\ ~m_resetRecompilers' /\ ~m_resetProfilers']_vars

\* C10 amended: ApplySettings with only the profiler group changed sets
\* m_resetProfilers and not m_resetRecompilers; the next Resume() call, when
\* no other Resume() was in progress at the ApplySettings and no step of
\* another control thread overlaps it, changes neither flag nor the cache if
\* it finds the mode Running, throws without consuming the flags if its
\* assertion fails, and otherwise returns after posting the resume event,
\* having cleared the cache exactly once and left both flags false.
C10_NextResumeConsumesUnlessRunning ==
    [][/\ AppliedProfilerOnly => (m_resetProfilers' /\ ~m_resetRecompilers')
       /\ \A t \in CtlThreads :
            (mon = MonResume(t) /\ InResume(t) /\ pc'[t] = "idle") =>
                \/ /\ pc[t] = "R_check" /\ m_ExecMode = "Running"
                   /\ clears[t] = 0
                   /\ UNCHANGED <<m_resetRecompilers, m_resetProfilers, cacheFilled>>
                \/ /\ pc[t] = "R_assert" /\ ~ResumeAssertion
                \/ /\ pc[t] = "R_post"
                   /\ clears[t] = 1
                   /\ ~m_resetRecompilers' /\ ~m_resetProfilers']_vars

\* C10 witness: the Resume() that follows a profiler-only ApplySettings has
\* cleared the cache once and both flags, and is about to post the resume event.
C10_ResumeConsumedProfilerReset ==
    \E t \in CtlThreads :
        /\ mon = MonResume(t)
        /\ pc[t] = "R_post"
        /\ clears[t] = 1
        /\ ~m_resetRecompilers /\ ~m_resetProfilers
        /\ EmuConfig.Profiler

\* C20: once a Resume() has rescinded a suspend request (it found Suspending
\* with no reset pending and wrote Running under the lock), the mode stays
\* Running until a new Suspend() call changes it; the execution thread does
\* not move it to Suspended on account of the rescinded request.
C20_RescindedRequestStaysRescinded ==
    [][(m_ExecMode = "Running" /\ lastWrite.site = "Resume212" /\ m_ExecMode' # "Running")
        => \E t \in CtlThreads : pc[t] = "S_check" /\ pc'[t] = "S_wait"]_vars

\* Control thread t is at a serialization pass of a StateRecovery call: the
\* pass is the next thing its call does.
AtPass(t) ==
    \/ InStore(t, "MG_pass")
    \/ InStore(t, "MF_pass")
    \/ InStore(t, "SF_mem") /\ g_RecoveryState = Null
    \/ InStore(t, "SF_zip")

\* The execution thread is not in the CPU loop: it is suspended, or the
\* session has not been resumed yet or is over.
ExecutionStopped == m_ExecMode = "Suspended" \/ m_ExecMode = "Idle"

\* C11: every serialization pass of StateRecovery (in MakeFull, MakeGsOnly,
\* SaveToFile and SaveToSlot) runs only while the execution thread is
\* suspended, never while the mode is Running or Suspending.
C11_PassOnlyWhileSuspended ==
    \A t \in CtlThreads : AtPass(t) => ExecutionStopped

\* The step in which MakeFull returns after a pass that succeeded.
MakeFullDone ==
    \E t \in CtlThreads : op[t] = "MF_pass" /\ op'[t] = "none" /\ result' = "MakeFull:done"

\* C12 as stated: MakeFull called with no full buffer and an active session
\* suspends, creates the full buffer, discards any GS-only buffer and resumes
\* before it returns, so that a session that was Running before the call is
\* Running when the call returns.
C12_MakeFullResumes ==
    [][MakeFullDone =>
          /\ g_RecoveryState' # Null
          /\ g_gsRecoveryState' = Null
          /\ (atCall.mode = "Running" => m_ExecMode' = "Running")]_vars

\* C12 amended: MakeFull called with no full buffer and an active session
\* suspends, creates the full buffer, discards any GS-only buffer and returns
\* without resuming: a session that was Running before the call is Suspended
\* when the call returns, and one that was not running is left as it was.
C12_MakeFullLeavesSuspended ==
    [][MakeFullDone =>
          /\ g_RecoveryState' # Null
          /\ g_gsRecoveryState' = Null
          /\ m_ExecMode' = (IF atCall.mode = "Running" THEN "Suspended" ELSE atCall.mode)]_vars

\* MakeFull has returned from a call made while the session was Running.
C12_MakeFullReturnedSuspended ==
    /\ AtRest(StoreCaller)
    /\ result = "MakeFull:done"
    /\ atCall.mode = "Running"
    /\ m_ExecMode = "Suspended"
    /\ g_RecoveryState # Null

\* The step in which the execution thread makes Recover().
RecoverStep == epc = "recover" /\ epc' # "recover"

\* C13: after MakeGsOnly followed by a MakeFull that succeeded the GS-only
\* buffer is absent and the full buffer present; Recover() loads from the full
\* buffer whenever there is one and from the GS-only buffer only when there is
\* no full buffer; and whenever the caller is outside every StateRecovery call
\* the two buffers are not both present.
C13_FullSupersedesPartial ==
    [][/\ MakeFullDone => (g_RecoveryState' # Null /\ g_gsRecoveryState' = Null)
       /\ RecoverStep => /\ g_RecoveryState # Null => thawed' = "full"
                         /\ thawed' = "gs" => (g_RecoveryState = Null /\ g_gsRecoveryState # Null)
       /\ AtRest(StoreCaller)' => ~(g_RecoveryState' # Null /\ g_gsRecoveryState' # Null)]_vars

\* MakeFull has returned from a call made while a GS-only buffer was present,
\* and has left the full buffer only.
C13_PartialDiscardedByMakeFull ==
    /\ AtRest(StoreCaller)
    /\ result = "MakeFull:done"
    /\ atCall.gs
    /\ g_RecoveryState # Null
    /\ g_gsRecoveryState = Null

\* The step in which MakeFull returns after its pass threw a RuntimeError.
MakeFullFailed ==
    \E t \in CtlThreads : op[t] = "MF_pass" /\ op'[t] = "none" /\ result' = "MakeFull:alert"

\* The step in which a Resume() of control thread t returns or throws.
ResumeEnds(t) == InResume(t) /\ pc'[t] = "idle"

\* C14: when the pass inside MakeFull fails, MakeFull returns with no full
\* buffer (HasState() is then true only if a GS-only buffer is there), the
\* execution state is one Resume() accepts, and the Resume() that follows ends
\* with the state Running.
C14_FailedMakeFullLeavesResumable ==
    [][/\ MakeFullFailed =>
            /\ g_RecoveryState' = Null
            /\ HasState' = (g_gsRecoveryState # Null)
            /\ ResumeAssertion'
       /\ \A t \in CtlThreads :
            (result = "MakeFull:alert" /\ ResumeEnds(t)) => m_ExecMode' = "Running"]_vars

\* After a MakeFull that failed on a running session, a Resume() has brought
\* the state back to Running.
C14_ResumedAfterFailedMakeFull ==
    /\ AtRest(StoreCaller)
    /\ result = "MakeFull:alert"
    /\ atCall.mode = "Running"
    /\ g_RecoveryState = Null
    /\ m_ExecMode = "Running"

\* C15: when Recover() returns, on the full path and on the GS-only path, both
\* buffers are absent, HasState() is false, so that a recover-or-boot decision
\* made then takes the boot path, and the translated-code cache is empty.
C15_RecoverClearsStore ==
    [][RecoverStep =>
          /\ g_RecoveryState' = Null
          /\ g_gsRecoveryState' = Null
          /\ ~HasState'
          /\ ~cacheFilled']_vars

\* Recover() has just loaded from the GS-only buffer and returned.
C15_RecoveredFromGsOnly ==
    /\ thawed = "gs"
    /\ epc = "check"
    /\ ~HasState
    /\ ~cacheFilled

\* Control thread t is inside SaveToFile.
InSaveToFile(t) == op[t] \in {"SF_mem", "SF_resume", "SF_write", "SF_zip"}

\* C16: SaveToFile called with no recovery buffer and an active session
\* suspends the session, produces a full buffer, writes the version word
\* followed by that buffer, and resumes only after the snapshot has been
\* taken: no pass runs after the resume, and on return the full buffer is
\* there, the file holds it, and a session that was Running is Running.
C16_SaveToFileSnapshotsThenResumes ==
    [][\A t \in CtlThreads :
          (InSaveToFile(t) /\ atCall.session /\ ~atCall.full /\ ~atCall.gs) =>
              /\ op'[t] # "crashed"
              /\ InStore(t, "SF_zip") => ExecutionStopped
              /\ op'[t] = "none" =>
                    /\ g_RecoveryState' # Null
                    /\ savedFile' = SavedFile(Bytes(g_RecoveryState'))
                    /\ atCall.mode = "Running" => m_ExecMode' = "Running"]_vars

\* C17: SaveToFile called with no full buffer and no session is a no-op: no
\* pass is started, no buffer is created or dereferenced, no file is written,
\* and the buffers and the execution state stay as they are.
C17_SaveToFileWithoutSessionIsNoOp ==
    [][\A t \in CtlThreads :
          (InSaveToFile(t) /\ ~atCall.session /\ ~atCall.full) =>
              /\ fault' = fault
              /\ op'[t] # "crashed"
              /\ savedFile' = Null
              /\ UNCHANGED <<g_RecoveryState, g_gsRecoveryState, m_ExecMode, epc, cacheFilled>>]_vars

\* The machine whose GS state the GS-only buffer holds.
FrozenGs ==
    LET st == LoadGsOnly(Bytes(g_gsRecoveryState))
    IN  [payload |-> st.payload, block |-> st.block]

\* C18: while a GS-only buffer is present, the buffered saver
\* (RecoveryMemSavingState) and the streamed saver (RecoveryZipSavingState)
\* both emit what the generic pass emits for the machine the buffer was taken
\* from: the record [u32 length][payload], then the block without its length
\* word; so the two emit the same bytes.
C18_RecoverySaversMatchGenericPass ==
    g_gsRecoveryState # Null =>
        \A m \in Machines :
            /\ RecoveryMemBytes(m) = GenericBytes(FrozenGs)
            /\ RecoveryZipBytes(m) = GenericBytes(FrozenGs)
            /\ RecoveryMemBytes(m) = RecoveryZipBytes(m)

\* The step in which MakeGsOnly returns after its pass.
MakeGsOnlyDone ==
    \E t \in CtlThreads : op[t] = "MG_pass" /\ op'[t] = "none" /\ result' = "MakeGsOnly:done"

\* C19: the buffer MakeGsOnly leaves has the layout
\* [u32 payload_length][payload][u32 block_length][block] for the machine it
\* froze, block_length being the number of bytes gsFreeze wrote; and Recover()
\* on the GS-only buffer reads the generic record, the length word and the
\* block in that order and ends exactly at the end of the buffer.
C19_PartialBufferLayoutRoundTrips ==
    [][/\ MakeGsOnlyDone =>
            \E m \in Machines :
                /\ Bytes(g_gsRecoveryState') = PartialLayout(m.payload, m.block)
                /\ ReadU32(Bytes(g_gsRecoveryState'), 4 + Len(m.payload)) = Len(m.block)
       /\ (RecoverStep /\ g_RecoveryState = Null /\ g_gsRecoveryState # Null) =>
            LET st == LoadGsOnly(Bytes(g_gsRecoveryState))
            IN  /\ st.m_idx = Len(Bytes(g_gsRecoveryState))
                /\ PartialLayout(st.payload, st.block) = Bytes(g_gsRecoveryState)]_vars

\* MakeGsOnly has frozen the GS of a session, and Recover() has then loaded
\* from that buffer and returned.
C19_GsOnlyBufferRecovered ==
    /\ result = "MakeGsOnly:done"
    /\ atCall.session
    /\ thawed = "gs"
    /\ epc = "check"
    /\ g_gsRecoveryState = Null

\* The execution thread is inside the Suspending/Suspended part of StateCheck
\* after its write of Suspended: about to post the suspend event, testing the
\* wait loop's condition, or parked on the resume event.
InSafePointWait == epc \in {"sc_post", "sc_loop", "sc_wait"}

\* C21: whenever the mode is Suspended the execution thread is inside the
\* safe-point wait and not in the CPU loop; only the execution thread writes
\* Suspended; and it leaves the wait only when the mode is no longer
\* Suspended, so that a leftover post of the resume event, which wakes it,
\* sends it back to the wait.
C21_SuspendedMeansParked ==
    [][/\ m_ExecMode' = "Suspended" => InSafePointWait'
       /\ (m_ExecMode # "Suspended" /\ m_ExecMode' = "Suspended") => epc = "sc_set"
       /\ (InSafePointWait /\ ~InSafePointWait') => m_ExecMode # "Suspended"
       /\ (m_ExecMode = "Suspended" /\ epc = "sc_wait" /\ epc' # "sc_wait") => epc' = "sc_loop"]_vars

\* The mode is Suspended, the execution thread is parked on the resume event,
\* and a post of the resume event is there to wake it.
C21_LeftoverPostWhileSuspended ==
    /\ m_ExecMode = "Suspended"
    /\ epc = "sc_wait"
    /\ m_ResumeEvent > 0
    /\ \A t \in CtlThreads : pc[t] = "idle"

====
